---- MODULE Spec2Model ----
(***************************************************************************)
(* Model of src/src/halo2_params.rs: building halo2 ParamsKZG<Bn256> from  *)
(* the Aztec ceremony transcript.                                          *)
(*                                                                         *)
(* Machine integers wider than 31 bits are kept as a pair [hi, lo] with    *)
(* value hi * 2^31 + lo and 0 <= lo < 2^31, so that the whole u32 range    *)
(* (and 1u64 << k for k <= 32) is represented exactly.                     *)
(*                                                                         *)
(* A field element of Fq is kept as its canonical 32-byte little-endian    *)
(* string, a point as the pair of its coordinates.                         *)
(***************************************************************************)
EXTENDS Integers, Sequences, FiniteSets, TLC

\* ------------------------------------------------------------------------
\* Bounds of the model
\* ------------------------------------------------------------------------

\* The largest point count for which the provider hands out data; a larger
\* request ends in a fetch error.
MaxPoints == 4

\* The largest number of whole 64-byte blocks in a buffer of unchecked length.
MaxRawBlocks == 2

\* ------------------------------------------------------------------------
\* Machine integers
\* ------------------------------------------------------------------------

U32Bits == 32

UsizeBits == 64

\* 2^31 - 1, the largest value of the low part of a word
LoMax == (2^30 - 1) * 2 + 1

Word(h, l) == [hi |-> h, lo |-> l]

FromNat(v) == Word(0, v)

\* a <= b on words
LeW(a, b) == a.hi < b.hi \/ (a.hi = b.hi /\ a.lo <= b.lo)

LtW(a, b) == LeW(a, b) /\ a # b

RECURSIVE BitLen(_)
\* number of significant bits of a natural number below 2^31
BitLen(v) == IF v = 0 THEN 0 ELSE 1 + BitLen(v \div 2)

\* number of significant bits of a word
BitLenW(w) == IF w.hi > 0 THEN 31 + BitLen(w.hi) ELSE BitLen(w.lo)

IsPow2Nat(v) == v > 0 /\ 2^(BitLen(v) - 1) = v

\* usize::is_power_of_two
is_power_of_two(w) ==
    \/ w.hi = 0 /\ IsPow2Nat(w.lo)
    \/ w.lo = 0 /\ IsPow2Nat(w.hi)

\* u32::leading_zeros
leading_zeros(w) == U32Bits - BitLenW(w)

RECURSIVE Ones(_)
\* the number whose m low bits are set, m <= 31
Ones(m) == IF m = 0 THEN 0 ELSE 2 * Ones(m - 1) + 1

\* u32::MAX >> z
ShrMax(z) == IF z = 0 THEN Word(1, LoMax) ELSE Word(0, Ones(U32Bits - z))

\* w - 1 for w >= 1
Dec(w) == IF w.lo > 0 THEN Word(w.hi, w.lo - 1) ELSE Word(w.hi - 1, LoMax)

\* u32::one_less_than_next_power_of_two
one_less_than_next_power_of_two(v) ==
    IF LeW(v, FromNat(1)) THEN FromNat(0) ELSE ShrMax(leading_zeros(Dec(v)))

\* u32::next_power_of_two: one_less_than_next_power_of_two() + 1, an addition
\* that panics on overflow when overflow checks are compiled in and wraps to 0
\* when they are not.
next_power_of_two(v, checks) ==
    LET m == one_less_than_next_power_of_two(v)
    IN  IF m = Word(1, LoMax)
        THEN [ok |-> ~checks, val |-> FromNat(0)]
        ELSE IF m.lo = LoMax
             THEN [ok |-> TRUE, val |-> Word(1, 0)]
             ELSE [ok |-> TRUE, val |-> Word(m.hi, m.lo + 1)]

\* pow2ceil(v)
pow2ceil(v, checks) == next_power_of_two(v, checks)

\* ark_std::log2 of (x as usize): 0 for 0, else the ceiling of log2
log2(x) ==
    IF x = FromNat(0) THEN 0
    ELSE IF is_power_of_two(x)
         THEN (UsizeBits - 1) - (UsizeBits - BitLenW(x))
         ELSE UsizeBits - (UsizeBits - BitLenW(x))

\* 1 << k as u64, k <= 32
Shl1(k) == IF k < 31 THEN Word(0, 2^k) ELSE Word(2^(k - 31), 0)

\* ------------------------------------------------------------------------
\* Bytes, limbs and field elements
\* ------------------------------------------------------------------------

LimbBytes == 8

G1CoordBytes == 32

G1BlockBytes == 64

G2CoordBytes == 64

Min(a, b) == IF a < b THEN a ELSE b

\* slice::chunks(w): consecutive pieces of w elements, the last one shorter
Chunks(s, w) ==
    [c \in 1..((Len(s) + w - 1) \div w) |->
        SubSeq(s, (c - 1) * w + 1, Min(c * w, Len(s)))]

\* Vec::reverse
Reverse(s) == [i \in 1..Len(s) |-> s[Len(s) + 1 - i]]

RECURSIVE Flatten(_)
\* Iterator::flatten().collect()
Flatten(ss) == IF Len(ss) = 0 THEN <<>> ELSE Head(ss) \o Flatten(Tail(ss))

LeBytes_whole_reversed(point) == Reverse(point)

\* le_bytes: every 8-byte limb reversed, limbs kept in order
LeBytes(point) ==
    LET limbs == Chunks(point, LimbBytes)
    IN  Flatten([c \in 1..Len(limbs) |-> Reverse(limbs[c])])

\* The two zeroed arrays of w bytes filled from le_bytes by the index loop;
\* oob: the loop writes second_byte_array[i - w] with i - w >= w.
FillArrays(le_bytes, w) ==
    [oob    |-> Len(le_bytes) > 2 * w,
     first  |-> [i \in 1..w |-> IF i <= Len(le_bytes) THEN le_bytes[i] ELSE 0],
     second |-> [i \in 1..w |->
                    IF w + i <= Len(le_bytes) THEN le_bytes[w + i] ELSE 0]]

Zeros(m) == [i \in 1..m |-> 0]

\* The modulus of Fq (bn256 base field), little-endian:
\* 0x30644e72e131a029b85045b68181585d97816a916871ca8d3c208c16d87cfd47
FqModulus ==
    << 71, 253, 124, 216,  22, 140,  32,  60, 141, 202, 113, 104, 145, 106,
      129, 151,  93,  88, 129, 129, 182,  69,  80, 184,  41, 160,  49, 225,
      114,  78, 100,  48>>

RECURSIVE LessLE(_, _, _)
\* a < b for little-endian byte strings, compared from byte i downwards
LessLE(a, b, i) ==
    IF i = 0 THEN FALSE
    ELSE IF a[i] # b[i] THEN a[i] < b[i]
    ELSE LessLE(a, b, i - 1)

\* Fq::from_bytes: Some(element) iff the 32 bytes are below the modulus
Fq_from_bytes(b) == [some |-> LessLE(b, FqModulus, G1CoordBytes), val |-> b]

\* Fq2::from_bytes: c0 from the first 32 bytes, c1 from the last 32
Fq2_from_bytes(b) ==
    [some |-> /\ Fq_from_bytes(SubSeq(b, 1, G1CoordBytes)).some
              /\ Fq_from_bytes(SubSeq(b, G1CoordBytes + 1, 2 * G1CoordBytes)).some,
     val  |-> b]

\* Field elements used below, as canonical little-endian strings
FqOf(v) == [i \in 1..G1CoordBytes |-> IF i = 1 THEN v ELSE 0]

\* -2 mod q
FqNegTwo == [i \in 1..G1CoordBytes |-> IF i = 1 THEN 69 ELSE FqModulus[i]]

\* ------------------------------------------------------------------------
\* Curve points
\* ------------------------------------------------------------------------

G1Point(x, y) == [x |-> x, y |-> y]

\* <G1Affine as PrimeCurveAffine>::generator(): (1, 2)
G1Generator == G1Point(FqOf(1), FqOf(2))

G1Identity == G1Point(Zeros(G1CoordBytes), Zeros(G1CoordBytes))

G1NegGenerator == G1Point(FqOf(1), FqNegTwo)

\* G1Affine::from_xy(x, y).is_some(): y^2 = x^3 + 3 in Fq, or the identity
\* (0, 0).  Decided exactly for x in {0, 1}: 3 is not a square in Fq, so no
\* point has x = 0, and y^2 = 4 has the two roots 2 and -2.
G1OnCurve(x, y) ==
    \/ x = Zeros(G1CoordBytes) /\ y = Zeros(G1CoordBytes)
    \/ x = FqOf(1) /\ y \in {FqOf(2), FqNegTwo}

\* The x coordinates for which G1OnCurve is exact
G1Decided(x) == x \in {Zeros(G1CoordBytes), FqOf(1)}

\* Coordinates of <G2Affine as PrimeCurveAffine>::generator(), c0 then c1,
\* little-endian
G2GenX ==
    <<237, 246, 146, 217,  92, 189, 222,  70, 221, 218,  94, 247, 212,  34,
       67, 103, 121,  68,  92,  94, 102,   0, 106,  66, 118,  30,  31,  18,
      239, 222,   0,  24,
      194,  18, 243, 174, 183, 133, 228, 151,  18, 231, 169,  53,  51,  73,
      170, 241,  37,  93, 251,  49, 183, 191,  96, 114,  58,  72,  13, 146,
      147, 147, 142,  25>>

G2GenY ==
    <<170, 125, 250, 102,   1, 204, 230,  76, 123, 211,  67,  12, 105, 231,
      209, 227, 143,  64, 203, 141, 128, 113, 171,  74, 235, 109, 140, 219,
      165,  94, 200,  18,
       91, 151,  34, 209, 220, 218, 172,  85, 243, 142, 179, 112,  51,  49,
       75, 188, 149,  51,  12, 105, 173, 153, 158, 236, 117, 240,  95,  88,
      208, 137,   6,   9>>

\* -G2GenY
G2GenNegY ==
    <<157, 127, 130, 113,  21, 192,  57, 239,  17, 247,  45,  92,  40, 131,
      175, 179, 205,  23, 182, 243,  53, 212, 164, 109,  62,  50, 165,   5,
      205, 239, 155,  29,
      236, 101,  90,   7,  58, 177, 115, 230, 153,  59, 190, 247,  93,  57,
       54, 219, 199,  36, 117,  24,   9, 172, 177, 203, 179, 175, 209, 136,
      162, 196,  93,  39>>

G2Point(x, y) == [x |-> x, y |-> y]

G2Generator == G2Point(G2GenX, G2GenY)

G2NegGenerator == G2Point(G2GenX, G2GenNegY)

G2Identity == G2Point(Zeros(G2CoordBytes), Zeros(G2CoordBytes))

\* G2Affine::from_xy(x, y).is_some(): y^2 = x^3 + 3/(9+u) in Fq2, or the
\* identity.  Decided exactly for x in {0, G2GenX}: 3/(9+u) is not a square
\* in Fq2, and y^2 = G2GenY^2 has the two roots G2GenY and -G2GenY.
G2OnCurve(x, y) ==
    \/ x = Zeros(G2CoordBytes) /\ y = Zeros(G2CoordBytes)
    \/ x = G2GenX /\ y \in {G2GenY, G2GenNegY}

G2Decided(x) == x \in {Zeros(G2CoordBytes), G2GenX}

\* ------------------------------------------------------------------------
\* Point Decoder
\* ------------------------------------------------------------------------

\* The outcome of a decoder call: the point, or the panic that ends the call
Decoded(p) == [ok |-> TRUE, val |-> p, panic |-> "none"]

Panicked(p, why) == [ok |-> FALSE, val |-> p, panic |-> why]

to_g1_point_global_reverse(point) ==
    LET arr == FillArrays(LeBytes_whole_reversed(point), G1CoordBytes)
        p   == G1Point(arr.first, arr.second)
    IN  IF arr.oob THEN Panicked(p, "index out of bounds")
        ELSE IF ~Fq_from_bytes(arr.first).some \/ ~Fq_from_bytes(arr.second).some
             THEN Panicked(p, "unwrap: Fq::from_bytes is None")
        ELSE IF ~G1OnCurve(arr.first, arr.second)
             THEN Panicked(p, "unwrap: from_xy is None")
        ELSE Decoded(p)

to_g1_point_rejects_short(point) ==
    LET arr == FillArrays(LeBytes(point), G1CoordBytes)
        p   == G1Point(arr.first, arr.second)
    IN  IF arr.oob \/ Len(point) < G1BlockBytes
        THEN Panicked(p, "index out of bounds")
        ELSE IF ~Fq_from_bytes(arr.first).some \/ ~Fq_from_bytes(arr.second).some
             THEN Panicked(p, "unwrap: Fq::from_bytes is None")
        ELSE IF ~G1OnCurve(arr.first, arr.second)
             THEN Panicked(p, "unwrap: from_xy is None")
        ELSE Decoded(p)

to_g1_point(point) ==
    LET arr == FillArrays(LeBytes(point), G1CoordBytes)
        p   == G1Point(arr.first, arr.second)
    IN  IF arr.oob THEN Panicked(p, "index out of bounds")
        ELSE IF ~Fq_from_bytes(arr.first).some \/ ~Fq_from_bytes(arr.second).some
             THEN Panicked(p, "unwrap: Fq::from_bytes is None")
        ELSE IF ~G1OnCurve(arr.first, arr.second)
             THEN Panicked(p, "unwrap: from_xy is None")
        ELSE Decoded(p)

to_g2_point(point) ==
    LET arr == FillArrays(LeBytes(point), G2CoordBytes)
        p   == G2Point(arr.first, arr.second)
    IN  IF arr.oob THEN Panicked(p, "index out of bounds")
        ELSE IF ~Fq2_from_bytes(arr.first).some \/ ~Fq2_from_bytes(arr.second).some
             THEN Panicked(p, "unwrap: Fq2::from_bytes is None")
        ELSE IF ~G2OnCurve(arr.first, arr.second)
             THEN Panicked(p, "unwrap: from_xy is None")
        ELSE Decoded(p)

\* The ceremony layout of a point with coordinate bytes xy (x then y, each
\* little-endian): every 8-byte limb is stored most significant byte first,
\* the limbs in their order.
CeremonyEncode(xy) ==
    [i \in 1..Len(xy) |->
        xy[LimbBytes * ((i - 1) \div LimbBytes) + LimbBytes - ((i - 1) % LimbBytes)]]

EncodeG1(p) == CeremonyEncode(p.x \o p.y)

EncodeG2(p) == CeremonyEncode(p.x \o p.y)

\* ------------------------------------------------------------------------
\* Basis Transform and Parameter Assembler
\* ------------------------------------------------------------------------

\* Byte j of the raw (unchecked) encoding of a point: the encoding is that of
\* the library, a fixed-width string determined by the point.
RawByte(P, j) == <<"raw", P, j>>

\* A plain byte of value v
U8(v) == <<"u8", v, 0>>

G1RawBytes == 2 * G1CoordBytes

G2RawBytes == 2 * G2CoordBytes

\* SerdeObject::write_raw of a point of w encoded bytes
write_raw(P, w) == [j \in 1..w |-> RawByte(P, j)]

\* u32::to_le_bytes
to_le_bytes(v) == [j \in 1..4 |-> U8((v \div 256^(j - 1)) % 256)]

\* The i-th output of the transform of the sequence g
LagrangePoint(i, g) == [lagrange |-> i, of |-> g]

\* g_to_lagrange(g, k): the library asserts that the input has 2^k points; a
\* transform of size 1 returns its input.
g_to_lagrange(g, k) ==
    IF k > 30 \/ Len(g) # 2^k
    THEN [ok |-> FALSE, val |-> <<>>, panic |-> "assertion failed: n == 1 << log_n"]
    ELSE [ok |-> TRUE,
          val |-> IF k = 0 THEN g ELSE [i \in 1..Len(g) |-> LagrangePoint(i, g)],
          panic |-> "none"]

\* No point: the value of a local that is not yet assigned
NoPoint == [x |-> <<>>, y |-> <<>>]

NoParams == [k |-> 0, n |-> 0, g |-> <<>>, g_lagrange |-> <<>>,
             g2 |-> NoPoint, s_g2 |-> NoPoint]

\* read_raw_unchecked of the w bytes of seg: the point they encode
read_raw(seg) ==
    IF seg = write_raw(seg[1][2], Len(seg)) THEN seg[1][2] ELSE [unchecked |-> seg]

\* The length of the buffer read_custom consumes for domain size n
ParamsBytes(n) == 4 + n * G1RawBytes + n * G1RawBytes + 2 * G2RawBytes

\* ParamsKZG::read_custom(buf, RawBytesUnchecked): k, then n = 1 << k points
\* of g, n of g_lagrange, g2 and s_g2, each read with read_exact().unwrap();
\* bytes after them are left unread.
read_custom(b) ==
    LET kk == IF Len(b) < 4 THEN 0
              ELSE b[1][2] + 256 * b[2][2] + 65536 * b[3][2] + 16777216 * (b[4][2] % 128)
        nn == IF kk > 20 THEN 0 ELSE 2^kk
        at(o, w) == read_raw(SubSeq(b, o + 1, o + w))
    IN  IF Len(b) < 4 \/ kk > 20 \/ b[4][2] > 127 \/ Len(b) < ParamsBytes(nn)
        THEN [ok |-> FALSE, val |-> NoParams, panic |-> "unwrap: failed to fill whole buffer"]
        ELSE [ok |-> TRUE,
              val |-> [k |-> kk, n |-> nn,
                       g |-> [i \in 1..nn |-> at(4 + (i - 1) * G1RawBytes, G1RawBytes)],
                       g_lagrange |->
                          [i \in 1..nn |-> at(4 + (nn + i - 1) * G1RawBytes, G1RawBytes)],
                       g2 |-> at(4 + 2 * nn * G1RawBytes, G2RawBytes),
                       s_g2 |-> at(4 + 2 * nn * G1RawBytes + G2RawBytes, G2RawBytes)],
              panic |-> "none"]

\* The buffer of params_kzg
params_buf_lagrange_first(k, g, g_lagrange, g2, s_g2) ==
    to_le_bytes(k)
      \o Flatten([i \in 1..Len(g_lagrange) |-> write_raw(g_lagrange[i], G1RawBytes)])
      \o Flatten([i \in 1..Len(g) |-> write_raw(g[i], G1RawBytes)])
      \o write_raw(g2, G2RawBytes)
      \o write_raw(s_g2, G2RawBytes)

params_buf(k, g, g_lagrange, g2, s_g2) ==
    to_le_bytes(k)
      \o Flatten([i \in 1..Len(g) |-> write_raw(g[i], G1RawBytes)])
      \o Flatten([i \in 1..Len(g_lagrange) |-> write_raw(g_lagrange[i], G1RawBytes)])
      \o write_raw(g2, G2RawBytes)
      \o write_raw(s_g2, G2RawBytes)

\* params_kzg: serialize, then deserialize
params_kzg(k, g, g_lagrange, g2, s_g2) ==
    read_custom(params_buf(k, g, g_lagrange, g2, s_g2))

\* ------------------------------------------------------------------------
\* Ceremony data provider (crate::aztec_crs::get_aztec_crs)
\* ------------------------------------------------------------------------

FetchErrors == {"network", "incomplete"}

G1OffCurve == G1Point(FqOf(1), FqOf(3))

G1BadX == G1Point(FqModulus, FqOf(2))

G1BadY == G1Point(FqOf(1), [i \in 1..G1CoordBytes |-> 255])

G2OffCurve == G2Point(G2GenX, Zeros(G2CoordBytes))

G2BadX == G2Point(FqModulus \o Zeros(G1CoordBytes), G2GenY)

\* The 64-byte blocks a transcript may hold at one position
G1Blocks(mode) ==
    IF mode = "exact"
    THEN {EncodeG1(P) : P \in {G1Generator, G1NegGenerator, G1Identity,
                               G1OffCurve, G1BadX, G1BadY}}
    ELSE IF mode = "pair"
    THEN {EncodeG1(P) : P \in {G1NegGenerator, G1OffCurve, G1BadX}}
    ELSE {EncodeG1(P) : P \in {G1NegGenerator, G1OffCurve, G1BadX}}

\* The extension-group blocks a transcript may hold
G2Blocks(mode) ==
    IF mode = "exact"
    THEN {EncodeG2(P) : P \in {G2Generator, G2NegGenerator, G2OffCurve, G2BadX}}
    ELSE IF mode = "pair"
    THEN {EncodeG2(P) : P \in {G2Generator, G2OffCurve}}
    ELSE {EncodeG2(G2NegGenerator), EncodeG2(G2BadX),
          SubSeq(EncodeG2(G2Generator), 1, G2CoordBytes),
          EncodeG2(G2Generator) \o <<0>>}

\* A last block shorter than 64 bytes
G1Tails ==
    {<<>>,
     SubSeq(EncodeG1(G1Generator), 1, 40),
     SubSeq(EncodeG1(G1Generator), 1, G1CoordBytes) \o <<2>>,
     SubSeq(EncodeG1(G1NegGenerator), 1, 36),
     <<0, 0, 0>>,
     [i \in 1..G1CoordBytes |-> 255]}

\* All buffers of m blocks
BlockSeqs(mode, m) ==
    {Flatten(f) : f \in [1..m -> G1Blocks(mode)]}

\* The base-group buffers the provider may return for a request of n points:
\* n - 1 blocks (the generator is not part of the transcript); with "anylen",
\* a buffer of any length.
G1Buffers(mode, n) ==
    IF mode = "anylen"
    THEN {b \o t : b \in UNION {BlockSeqs(mode, m) : m \in 0..MaxRawBlocks},
                   t \in G1Tails}
    ELSE IF n.hi > 0 \/ n.lo > MaxPoints \/ (mode = "pair" /\ n.lo > 2) THEN {}
    ELSE IF n.lo = 0 THEN {<<>>}
    ELSE BlockSeqs(mode, n.lo - 1)

\* What a successful fetch may return
ProviderData(mode, n) ==
    {[g1 |-> b, g2 |-> e] : b \in G1Buffers(mode, n), e \in G2Blocks(mode)}

\* The point counts a caller may request
RequestedCounts(mode) ==
    IF mode = "pair"
    THEN {FromNat(1), FromNat(2), Word(1, 1)}
    ELSE {FromNat(v) : v \in 0..5} \cup {FromNat(LoMax), Word(1, 0), Word(1, 1),
                                         Word(1, LoMax)}

\* ------------------------------------------------------------------------
\* State
\* ------------------------------------------------------------------------

\* The invocations of constuct_halo2_params_from_aztec_crs
Procs == {1, 2}

VARIABLES
    overflow_checks,  \* whether the build checks integer overflow
    provider,         \* which buffers the provider may return
    active,           \* the invocations that are made
    inv               \* per invocation: its position, locals and outcome

vars == <<overflow_checks, provider, active, inv>>

\* An invocation that has not been called
Idle ==
    [pc            |-> "idle",
     num_points    |-> FromNat(0),
     points_needed |-> FromNat(0),
     fetches       |-> <<>>,        \* the counts get_aztec_crs was called with
     fetch_error   |-> "none",      \* the error the provider returned
     g1_data       |-> <<>>,
     g2_data       |-> <<>>,
     k             |-> 0,
     g             |-> <<>>,
     pos           |-> 0,           \* the blocks of g1_data consumed so far
     g_lagrange    |-> <<>>,
     s_g2          |-> NoPoint,
     buf           |-> <<>>,
     outcome       |-> "pending",   \* "ok", "err" (returned), "panic" (unwound)
     error         |-> "none",      \* the Err value returned
     panic         |-> "none",
     params        |-> NoParams,    \* the Ok value returned
     stages        |-> <<>>]        \* the steps taken, in order

InitWith(mode, procs) ==
    /\ overflow_checks \in BOOLEAN
    /\ provider = mode
    /\ active = procs
    /\ inv = [i \in procs |-> Idle]

Init == InitWith("exact", {1})

InitAnyLen == InitWith("anylen", {1})

InitPair == InitWith("pair", {1, 2})

\* The invocation unwinds with a panic
Panic(r, why, stage) ==
    [r EXCEPT !.pc = "done", !.outcome = "panic", !.panic = why,
              !.stages = Append(@, stage)]

\* ------------------------------------------------------------------------
\* Steps of constuct_halo2_params_from_aztec_crs
\* ------------------------------------------------------------------------

\* The count get_aztec_crs is called with
FetchCount_raw(r, n) == r.num_points

FetchCount(r, n) == n

\* Lines 18-20: round the count, call get_aztec_crs and suspend on it
Call(i) ==
    /\ i \in active
    /\ inv[i].pc = "idle"
    /\ \E p \in RequestedCounts(provider) :
       LET r0 == [inv[i] EXCEPT !.num_points = p]
           n  == pow2ceil(p, overflow_checks)
       IN  inv' = [inv EXCEPT ![i] =
                IF ~n.ok
                THEN Panic(r0, "attempt to add with overflow", "round")
                ELSE [r0 EXCEPT !.pc = "awaiting",
                                !.points_needed = n.val,
                                !.fetches = Append(@, FetchCount(r0, n.val)),
                                !.stages = Append(@, "fetch")]]
    /\ UNCHANGED <<overflow_checks, provider, active>>

\* Line 20: the fetch fails and `?` returns its error
FetchErr(i) ==
    /\ i \in active
    /\ inv[i].pc = "awaiting"
    /\ \E e \in FetchErrors :
         inv' = [inv EXCEPT ![i] =
            [@ EXCEPT !.pc = "done", !.fetch_error = e,
                      !.outcome = "err", !.error = e,
                      !.stages = Append(@, "fetch_failed")]]
    /\ UNCHANGED <<overflow_checks, provider, active>>

\* Line 20: the fetch returns the two buffers
FetchOk(i) ==
    /\ i \in active
    /\ inv[i].pc = "awaiting"
    /\ \E d \in ProviderData(provider, inv[i].points_needed) :
         inv' = [inv EXCEPT ![i] =
            [@ EXCEPT !.pc = "fetched", !.g1_data = d.g1, !.g2_data = d.g2,
                      !.stages = Append(@, "fetched")]]
    /\ UNCHANGED <<overflow_checks, provider, active>>

new_monomials_empty(all, i) == <<>>

new_monomials_shared(all, i) ==
    LET others == {j \in DOMAIN all \ {i} : all[j].g # <<>>}
    IN  IF others = {} THEN <<G1Generator>> ELSE all[CHOOSE j \in others : TRUE].g

\* Line 26: g is a new vector of the invocation i, holding the generator,
\* whatever the invocations `all` hold
new_monomials(all, i) == <<G1Generator>>

\* Lines 22-26: k, the assertion n == 1 << k, and g = [generator]
ComputeDomain(i) ==
    /\ i \in active
    /\ inv[i].pc = "fetched"
    /\ LET k  == log2(inv[i].points_needed)
           r0 == [inv[i] EXCEPT !.k = k]
       IN  inv' = [inv EXCEPT ![i] =
                IF inv[i].points_needed # Shl1(k)
                THEN Panic(r0, "assertion failed: n == 1 << k", "domain")
                ELSE [r0 EXCEPT !.pc = "decoding", !.g = new_monomials(inv, i),
                                !.stages = Append(@, "domain")]]
    /\ UNCHANGED <<overflow_checks, provider, active>>

extend_done_early(r) == TRUE

\* Line 28: the iterator of extend is exhausted
extend_done(r) == r.pos = Len(Chunks(r.g1_data, G1BlockBytes))

\* Line 28: g.extend(g1_data.chunks(64).map(to_g1_point)), one block
DecodeNext(i) ==
    /\ i \in active
    /\ inv[i].pc = "decoding"
    /\ inv[i].pos < Len(Chunks(inv[i].g1_data, G1BlockBytes))
    /\ LET blocks == Chunks(inv[i].g1_data, G1BlockBytes)
           d      == to_g1_point(blocks[inv[i].pos + 1])
       IN  inv' = [inv EXCEPT ![i] =
                IF ~d.ok
                THEN Panic(@, d.panic, "g1")
                ELSE [@ EXCEPT !.g = Append(@, d.val), !.pos = @ + 1,
                               !.stages = Append(@, "g1")]]
    /\ UNCHANGED <<overflow_checks, provider, active>>

\* Line 30: g_to_lagrange once every block is decoded
Transform(i) ==
    /\ i \in active
    /\ inv[i].pc = "decoding"
    /\ extend_done(inv[i])
    /\ LET t == g_to_lagrange(inv[i].g, inv[i].k)
       IN  inv' = [inv EXCEPT ![i] =
                IF ~t.ok
                THEN Panic(@, t.panic, "transform")
                ELSE [@ EXCEPT !.pc = "decode_g2", !.g_lagrange = t.val,
                               !.stages = Append(@, "transform")]]
    /\ UNCHANGED <<overflow_checks, provider, active>>

\* Lines 32-33: s_g2 = to_g2_point(&g2_data)
DecodeG2(i) ==
    /\ i \in active
    /\ inv[i].pc = "decode_g2"
    /\ LET d == to_g2_point(inv[i].g2_data)
       IN  inv' = [inv EXCEPT ![i] =
                IF ~d.ok
                THEN Panic(@, d.panic, "g2")
                ELSE [@ EXCEPT !.pc = "assemble", !.s_g2 = d.val,
                               !.stages = Append(@, "g2")]]
    /\ UNCHANGED <<overflow_checks, provider, active>>

\* Line 35: Ok(params_kzg(k, g, g_lagrange, g2, s_g2))
Assemble(i) ==
    /\ i \in active
    /\ inv[i].pc = "assemble"
    /\ LET r == inv[i]
           b == params_buf(r.k, r.g, r.g_lagrange, G2Generator, r.s_g2)
           o == params_kzg(r.k, r.g, r.g_lagrange, G2Generator, r.s_g2)
       IN  inv' = [inv EXCEPT ![i] =
                IF ~o.ok
                THEN [Panic(@, o.panic, "assemble") EXCEPT !.buf = b]
                ELSE [@ EXCEPT !.pc = "done", !.buf = b, !.outcome = "ok",
                               !.params = o.val,
                               !.stages = Append(@, "assemble")]]
    /\ UNCHANGED <<overflow_checks, provider, active>>

Next ==
    \/ \E i \in Procs : Call(i)
    \/ \E i \in Procs : FetchErr(i)
    \/ \E i \in Procs : FetchOk(i)
    \/ \E i \in Procs : ComputeDomain(i)
    \/ \E i \in Procs : DecodeNext(i)
    \/ \E i \in Procs : Transform(i)
    \/ \E i \in Procs : DecodeG2(i)
    \/ \E i \in Procs : Assemble(i)

\* One invocation, the provider returning n - 1 blocks
Spec == Init /\ [][Next]_vars

\* One invocation, the provider returning a base-group buffer of any length
SpecAnyLen == InitAnyLen /\ [][Next]_vars

\* Two invocations, interleaved
SpecPair == InitPair /\ [][Next]_vars

\* ------------------------------------------------------------------------
\* Properties
\* ------------------------------------------------------------------------

Has(s, e) == \E j \in 1..Len(s) : s[j] = e

Count(s, e) == Cardinality({j \in 1..Len(s) : s[j] = e})

\* 2^31 as a word
TwoTo31 == Word(1, 0)

\* n / 2 for a power of two n >= 2
HalfW(n) == IF n.hi > 0 THEN Word(0, (n.hi * 2^30)) ELSE Word(0, n.lo \div 2)

\* n is the smallest power of two that is >= p
SmallestPow2AtLeast(n, p) ==
    /\ is_power_of_two(n)
    /\ LeW(p, n)
    /\ n = FromNat(1) \/ LtW(HalfW(n), p)

\* The j-th 64-byte block of a buffer
Block(data, j) == SubSeq(data, G1BlockBytes * (j - 1) + 1, G1BlockBytes * j)

\* The number of blocks, whole or not, of a buffer
NumBlocks(data) == (Len(data) + G1BlockBytes - 1) \div G1BlockBytes

\* The model decides the curve equation exactly for every block it decodes:
\* canonical coordinates have an x for which G1OnCurve, G2OnCurve are exact.
ModelDomainOK ==
    \A i \in active :
        /\ \A c \in 1..NumBlocks(inv[i].g1_data) :
              LET a == FillArrays(LeBytes(Chunks(inv[i].g1_data, G1BlockBytes)[c]),
                                  G1CoordBytes)
              IN  Fq_from_bytes(a.first).some /\ Fq_from_bytes(a.second).some
                      => G1Decided(a.first)
        /\ LET a == FillArrays(LeBytes(inv[i].g2_data), G2CoordBytes)
           IN  Fq2_from_bytes(a.first).some /\ Fq2_from_bytes(a.second).some
                   => G2Decided(a.first)

\* C1: for every requested count p, once the count is rounded, n is the
\* smallest power of two >= p, no overflow panic has happened, and the
\* assertion n == 1 << k holds when it is reached.
C1_RoundedDomain ==
    \A i \in active :
        LET r == inv[i]
        IN  r.pc # "idle" =>
              /\ r.panic \notin {"attempt to add with overflow",
                                 "assertion failed: n == 1 << k"}
              /\ SmallestPow2AtLeast(r.points_needed, r.num_points)
              /\ Has(r.stages, "domain") => r.points_needed = Shl1(r.k)

\* Some block the provider returned does not decode to a point
BadBlockIn(r) ==
    \/ \E c \in 1..NumBlocks(r.g1_data) :
          ~to_g1_point(Chunks(r.g1_data, G1BlockBytes)[c]).ok
    \/ ~to_g2_point(r.g2_data).ok

\* C2: an invocation (with a count that rounds without overflow) whose
\* fetch returned a block that is not a canonical point on the curve ends by
\* returning PointDecodingError, with no Parameter Object.
C2_DecodeErrorReturned ==
    \A i \in active :
        LET r == inv[i]
        IN  (/\ r.pc = "done"
             /\ LeW(r.num_points, TwoTo31)
             /\ Has(r.stages, "fetched")
             /\ BadBlockIn(r))
            => /\ r.outcome = "err"
               /\ r.error = "PointDecodingError"
               /\ r.params = NoParams

\* C3: when the transform is invoked, g has exactly n points, the generator
\* (1, 2) first and then the decodings of the blocks of g1_data in buffer
\* order; the transform returns n points and a returned Parameter Object has
\* domain size n.
C3_MonomialSequence ==
    \A i \in active :
        LET r == inv[i]
            n == r.points_needed
        IN  Has(r.stages, "transform") =>
              /\ n.hi = 0
              /\ Len(r.g) = n.lo
              /\ r.g[1] = G1Point(FqOf(1), FqOf(2))
              /\ \A j \in 1..(n.lo - 1) :
                    /\ to_g1_point(Block(r.g1_data, j)).ok
                    /\ r.g[j + 1] = to_g1_point(Block(r.g1_data, j)).val
              /\ r.panic # "assertion failed: n == 1 << log_n"
              /\ Len(r.g_lagrange) = n.lo
              /\ r.outcome = "ok" =>
                    /\ r.params.n = n.lo
                    /\ r.params.g = r.g
                    /\ Len(r.params.g_lagrange) = n.lo

\* C3 witness: a request for 4 points, 3 provider blocks, a Parameter Object
\* of domain size 4
C3_Witness ==
    \E i \in active :
        /\ inv[i].num_points = FromNat(4)
        /\ Len(inv[i].g1_data) = 3 * G1BlockBytes
        /\ inv[i].outcome = "ok"
        /\ inv[i].params.n = 4
        /\ Len(inv[i].g) = 4
        /\ Len(inv[i].g_lagrange) = 4

\* C4: the assembled buffer is k in 4 little-endian bytes, the points of g in
\* order, the points of g_lagrange in order, the extension-group generator,
\* the secret point, and nothing else; its length is
\* 4 + n * 64 + n * 64 + 2 * 128 with n = 1 << k.
C4_BufferLayout ==
    \A i \in active :
        LET r == inv[i]
            b == r.buf
            n == Len(r.g)
        IN  Has(r.stages, "assemble") =>
              /\ n = 2^r.k
              /\ Len(r.g_lagrange) = n
              /\ Len(b) = 4 + n * G1RawBytes + n * G1RawBytes + 2 * G2RawBytes
              /\ <<b[1], b[2], b[3], b[4]>> = <<U8(r.k), U8(0), U8(0), U8(0)>>
              /\ \A j \in 1..n : \A t \in 1..G1RawBytes :
                    /\ b[4 + (j - 1) * G1RawBytes + t] = RawByte(r.g[j], t)
                    /\ b[4 + (n + j - 1) * G1RawBytes + t] = RawByte(r.g_lagrange[j], t)
              /\ \A t \in 1..G2RawBytes :
                    /\ b[4 + 2 * n * G1RawBytes + t]
                          = RawByte(G2Point(G2GenX, G2GenY), t)
                    /\ b[4 + 2 * n * G1RawBytes + G2RawBytes + t] = RawByte(r.s_g2, t)

\* C4 witness: a buffer for k = 2 whose Lagrange points differ from g
C4_Witness ==
    \E i \in active :
        /\ Has(inv[i].stages, "assemble")
        /\ inv[i].k = 2
        /\ Len(inv[i].buf) = 772
        /\ inv[i].g_lagrange # inv[i].g

\* C5: get_aztec_crs is called at most once, with the rounded count; when it
\* fails, the invocation returns the provider's error and has taken no other
\* step.
C5_FetchFailure ==
    \A i \in active :
        LET r == inv[i]
        IN  /\ Len(r.fetches) <= 1
            /\ Len(r.fetches) = Count(r.stages, "fetch")
            /\ r.fetches # <<>> =>
                  /\ r.fetches[1] = r.points_needed
                  /\ LeW(r.num_points, TwoTo31) =>
                        SmallestPow2AtLeast(r.fetches[1], r.num_points)
            /\ Has(r.stages, "fetch_failed") =>
                  /\ r.pc = "done"
                  /\ r.outcome = "err"
                  /\ r.error = r.fetch_error
                  /\ r.error \in FetchErrors
                  /\ r.stages = <<"fetch", "fetch_failed">>
                  /\ r.pos = 0 /\ r.g = <<>> /\ r.g_lagrange = <<>> /\ r.buf = <<>>
                  /\ r.params = NoParams

\* C5 witness: a request for 3 points whose fetch, for 4, failed
C5_Witness ==
    \E i \in active :
        /\ inv[i].num_points = FromNat(3)
        /\ inv[i].fetches = <<FromNat(4)>>
        /\ Has(inv[i].stages, "fetch_failed")
        /\ inv[i].error = "incomplete"

\* C6: an invocation (with a count that rounds without overflow) that has
\* ended returned a Parameter Object, or returned a tagged error and no
\* Parameter Object.
C6_TwoOutcomes ==
    \A i \in active :
        LET r == inv[i]
        IN  (r.pc = "done" /\ LeW(r.num_points, TwoTo31)) =>
              \/ r.outcome = "ok" /\ r.params # NoParams /\ r.error = "none"
              \/ /\ r.outcome = "err"
                 /\ r.error \in FetchErrors \cup {"PointDecodingError", "AssemblyError"}
                 /\ r.params = NoParams

\* The valid points whose ceremony encoding the provider may hold
G1Valid == {G1Generator, G1NegGenerator, G1Identity}

G2Valid == {G2Generator, G2NegGenerator, G2Identity}

\* C7: a block that is the ceremony encoding of a valid point decodes to
\* exactly that point, for the base group and for the extension group.
C7_RoundTrip ==
    \A i \in active :
        LET r == inv[i]
            blocks == Chunks(r.g1_data, G1BlockBytes)
        IN  /\ \A P \in G1Valid :
                  /\ \A j \in 1..r.pos : blocks[j] = EncodeG1(P) => r.g[j + 1] = P
                  /\ (r.pc = "done" /\ r.stages[Len(r.stages)] = "g1"
                         /\ r.outcome = "panic")
                       => blocks[r.pos + 1] # EncodeG1(P)
            /\ \A P \in G2Valid :
                  (Has(r.stages, "g2") /\ r.g2_data = EncodeG2(P))
                       => r.outcome # "panic" /\ r.s_g2 = P

\* C7 witness: the encodings of -G in both groups, decoded
C7_Witness ==
    \E i \in active :
        /\ inv[i].pos >= 1
        /\ Block(inv[i].g1_data, 1) = EncodeG1(G1NegGenerator)
        /\ inv[i].g[2] = G1NegGenerator
        /\ inv[i].g2_data = EncodeG2(G2NegGenerator)
        /\ Has(inv[i].stages, "g2")
        /\ inv[i].s_g2 = G2NegGenerator

\* The place of a step in the order of the function body
Rank(e) ==
    CASE e = "round" -> 0
      [] e = "fetch" -> 1
      [] e \in {"fetched", "fetch_failed"} -> 2
      [] e = "domain" -> 3
      [] e = "g1" -> 4
      [] e = "transform" -> 5
      [] e = "g2" -> 6
      [] e = "assemble" -> 7

\* What both readings of the stage order share: one fetch, completed before
\* any decoding; every block decoded before the transform; the transform
\* before assembly; the extension-group point decoded once.
OrderCommon(r) ==
    LET s == r.stages
    IN  /\ Count(s, "fetch") <= 1
        /\ Len(r.fetches) = Count(s, "fetch")
        /\ \A e \in {"fetched", "domain", "transform", "g2", "assemble"} :
              Count(s, e) <= 1
        /\ \A a \in 1..Len(s) : \A b \in 1..Len(s) :
              (a < b /\ s[b] = "g1") => s[a] \in {"fetch", "fetched", "domain", "g1"}
        /\ Has(s, "g1") => Has(s, "fetched")
        /\ Has(s, "transform") =>
              /\ Count(s, "g1") = NumBlocks(r.g1_data)
              /\ Has(s, "fetched")
        /\ Has(s, "assemble") =>
              /\ Count(s, "g2") = 1
              /\ Has(s, "transform")
              /\ s[Len(s)] = "assemble"

\* C8 (as claimed): the stages run in order, the extension-group point being
\* decoded before the transform is invoked.
C8_StageOrder_Claimed ==
    \A i \in active :
        /\ OrderCommon(inv[i])
        /\ LET s == inv[i].stages
           IN  \A b \in 1..Len(s) :
                  s[b] = "transform" => \E a \in 1..(b - 1) : s[a] = "g2"

\* C8 (amended): the stages run in the order of the function body: the
\* fetch, every base-group block, the transform, then the extension-group
\* point, once, then assembly.
C8_StageOrder ==
    \A i \in active :
        /\ OrderCommon(inv[i])
        /\ LET s == inv[i].stages
           IN  \A a \in 1..Len(s) : \A b \in 1..Len(s) :
                  a < b => /\ Rank(s[a]) <= Rank(s[b])
                           /\ Rank(s[a]) = Rank(s[b]) => s[a] = "g1"

\* C8 witness: an invocation with blocks to decode that reached assembly
C8_Witness ==
    \E i \in active :
        /\ inv[i].stages = <<"fetch", "fetched", "domain", "g1", "g1", "g1",
                             "transform", "g2", "assemble">>
        /\ inv[i].outcome = "ok"

\* C9: two invocations with the same count whose fetches ended the same way
\* end in the same outcome, with the same buffer and Parameter Object.
C9_Determinism ==
    LET a == inv[1]
        b == inv[2]
    IN  (/\ a.pc = "done" /\ b.pc = "done"
         /\ a.num_points = b.num_points
         /\ Has(a.stages, "fetched") = Has(b.stages, "fetched")
         /\ a.fetch_error = b.fetch_error
         /\ a.g1_data = b.g1_data
         /\ a.g2_data = b.g2_data)
        => /\ a.outcome = b.outcome
           /\ a.error = b.error
           /\ a.panic = b.panic
           /\ a.buf = b.buf
           /\ a.params = b.params

\* C9 witness: two invocations for 2 points, the same data, both returned
C9_Witness ==
    /\ inv[1].outcome = "ok" /\ inv[2].outcome = "ok"
    /\ inv[1].num_points = FromNat(2) /\ inv[2].num_points = FromNat(2)
    /\ inv[1].g1_data = inv[2].g1_data
    /\ inv[1].g2_data = inv[2].g2_data
    /\ Len(inv[1].buf) = 516

\* Byte t of the coordinate bytes the decoder builds from a block of at most
\* 64 bytes: the bytes present, each limb reversed over the bytes it has,
\* then zeros.
PaddedByte(block, t) ==
    LET limb  == (t - 1) \div LimbBytes
        have  == Min(LimbBytes, Len(block) - LimbBytes * limb)
        off   == (t - 1) % LimbBytes
    IN  IF t <= Len(block) THEN block[LimbBytes * limb + have - off] ELSE 0

\* C10: whatever the length L of g1_data, ceil(L / 64) blocks are decoded and
\* g has 1 + ceil(L / 64) points when the transform is invoked, whatever n; a
\* short last block is decoded from its bytes, limbs reversed, followed by
\* zeros, and is not rejected for its length; to_g1_point never indexes
\* outside its arrays.
C10_NoSizeCheck ==
    \A i \in active :
        LET r == inv[i]
            L == Len(r.g1_data)
            m == (L + 63) \div 64
            blk(j) == SubSeq(r.g1_data, 64 * (j - 1) + 1, Min(64 * j, L))
            xy(j) == [t \in 1..G1BlockBytes |-> PaddedByte(blk(j), t)]
        IN  /\ r.pos <= m
            /\ Count(r.stages, "g1") <= m
            /\ r.g # <<>> => Len(r.g) = 1 + r.pos
            /\ Has(r.stages, "transform") =>
                  r.pos = m /\ Count(r.stages, "g1") = m /\ Len(r.g) = 1 + m
            /\ \A j \in 1..r.pos :
                  r.g[j + 1] = G1Point(SubSeq(xy(j), 1, G1CoordBytes),
                                       SubSeq(xy(j), G1CoordBytes + 1, G1BlockBytes))
            /\ r.panic # "index out of bounds" \/ r.stages[Len(r.stages)] # "g1"
            /\ (r.outcome = "panic" /\ r.stages[Len(r.stages)] = "g1") =>
                  LET c == xy(r.pos + 1)
                      x == SubSeq(c, 1, G1CoordBytes)
                      y == SubSeq(c, G1CoordBytes + 1, G1BlockBytes)
                  IN  \/ ~LessLE(x, FqModulus, G1CoordBytes)
                      \/ ~LessLE(y, FqModulus, G1CoordBytes)
                      \/ ~G1OnCurve(x, y)

\* C10 witness: a buffer of 33 bytes for a request that rounds to 4: its one
\* short block is decoded to the generator and g has 2 points at the transform
C10_Witness ==
    \E i \in active :
        /\ Len(inv[i].g1_data) = 33
        /\ inv[i].points_needed = FromNat(4)
        /\ Has(inv[i].stages, "transform")
        /\ inv[i].g = <<G1Generator, G1Generator>>

====
